---- MODULE Spec2Model ----
(***************************************************************************)
(* Model of sensorml.py: get_stations_df(sos_url, station_urns_sel).       *)
(*                                                                         *)
(* Strings the code takes apart (offering names, role URIs, definition     *)
(* URIs, gml:pos text) are sequences of symbols.  A symbol is a separator  *)
(* character (":", "/", ",", " ") or a character or word holding no        *)
(* separator.  Strings the code only copies (organisation names, URLs,     *)
(* classifier values) are TLA+ strings.  Python's None is the string       *)
(* "None"; where a symbol sequence is expected it is the one-symbol        *)
(* sequence <<"None">>, a symbol that occurs in no input string.           *)
(***************************************************************************)
EXTENDS Integers, Sequences, FiniteSets, TLC

VARIABLES
    pc,                \* "start", "loop", "returned", "raised"
    station_urns_sel,  \* the argument: [isNone |-> BOOLEAN, value |-> list of URNs]
    offerings,         \* sos_collector.server.offerings, as the list of their names
    station_urns,      \* the list the loop runs over
    sml_lst,           \* the SensorML documents received so far (all of them, in default mode)
    station_idx,       \* number of loop iterations completed
    station_recs,      \* the accumulated list of records
    station,           \* the record of the latest iteration (line 84), or Unbound
    contacts_dct,      \* role -> Contact of the latest iteration (line 74)
    quant_lst,         \* definition URIs of the latest iteration (line 81)
    parameter_lst,     \* short names of the latest iteration (line 82)
    stations_df,       \* the returned table, or Unbound
    exc                \* the exception that left get_stations_df, or NoExc

vars == <<pc, station_urns_sel, offerings, station_urns, sml_lst, station_idx,
          station_recs, station, contacts_dct, quant_lst, parameter_lst,
          stations_df, exc>>

None == "None"
NoneSeq == <<None>>
Unbound == [unbound |-> TRUE]
NoExc == [type |-> "NoExc", line |-> 0]

Range(s) == {s[i] : i \in DOMAIN s}

----------------------------------------------------------------------------
(* str.split(sep), str.split(), sep.join(list), float(str)                 *)

\* Index of the first occurrence of sep in s, 0 when there is none.
RECURSIVE Find(_, _, _)
Find(s, sep, i) ==
    IF i > Len(s) THEN 0
    ELSE IF s[i] = sep THEN i
    ELSE Find(s, sep, i + 1)

\* s.split(sep): the pieces between separators, empty pieces included;
\* a string without separator gives the one-element list of itself.
RECURSIVE Split(_, _)
Split(s, sep) ==
    LET i == Find(s, sep, 1)
    IN  IF i = 0 THEN <<s>>
        ELSE <<SubSeq(s, 1, i - 1)>> \o Split(SubSeq(s, i + 1, Len(s)), sep)

\* s.split(): the maximal runs of non-whitespace; no empty pieces.
RECURSIVE DropEmpty(_)
DropEmpty(lst) ==
    IF lst = <<>> THEN <<>>
    ELSE IF Head(lst) = <<>> THEN DropEmpty(Tail(lst))
    ELSE <<Head(lst)>> \o DropEmpty(Tail(lst))

SplitWS(s) == DropEmpty(Split(s, " "))

\* sep.join(lst)
RECURSIVE Join(_, _)
Join(lst, sep) ==
    IF lst = <<>> THEN <<>>
    ELSE IF Len(lst) = 1 THEN lst[1]
    ELSE lst[1] \o <<sep>> \o Join(Tail(lst), sep)

\* x.split(sep)[-1]
LastOf(lst) == lst[Len(lst)]

LastSegment(s, sep) == LastOf(Split(s, sep))

DigitValue(c) == CASE c = "1" -> 1 [] c = "2" -> 2 [] c = "3" -> 3
Digits == {"1", "2", "3"}

RECURSIVE DigitsValue(_, _)
DigitsValue(s, acc) ==
    IF s = <<>> THEN acc
    ELSE DigitsValue(Tail(s), 10 * acc + DigitValue(Head(s)))

\* float(tok) on tokens over the symbols Digits, "-" and "x": a token is
\* accepted exactly when it is an optional sign followed by one or more
\* digits; every other token over these symbols raises ValueError.
IsFloat(tok) ==
    LET body == IF tok # <<>> /\ Head(tok) = "-" THEN Tail(tok) ELSE tok
    IN  body # <<>> /\ \A i \in DOMAIN body : body[i] \in Digits

Float(tok) ==
    IF Head(tok) = "-" THEN 0 - DigitsValue(Tail(tok), 0)
    ELSE DigitsValue(tok, 0)

----------------------------------------------------------------------------
(* Inputs: station URNs, offering names, SensorML documents                *)

MaxStations == 2

StaA == <<"urn", ":", "station", ":", "a">>
StaNetwork1 == <<"urn", ":", "station", ":", "network1">>
NetAll == <<"urn", ":", "network", ":", "all">>
StaNamedNetwork == <<"urn", ":", "station", ":", "network">>

StationUrns == {StaA, StaNetwork1}
OfferingNames == {StaA, StaNetwork1, NetAll, StaNamedNetwork}

\* All lists over S of length at most n.
ListsUpTo(S, n) == UNION {[1..k -> S] : k \in 0..n}

\* sml:contact/sml:ContactList/sml:member elements, as owslib's Contact reads them
Contact(role, organization, country, url) ==
    [role |-> role, organization |-> organization, country |-> country, url |-> url]

Op1 == Contact(<<"ont", "/", "role", "/", "operator">>, "UW", "USA", "http://uw")
Op2 == Contact(<<"operator">>, "OSU", "Canada", None)
Pub1 == Contact(<<"ont", "/", "role", "/", "publisher">>, "NANOOS", "USA", "http://nanoos")
Pub2 == Contact(<<"other", "/", "publisher">>, "IOOS", None, "http://ioos")
Owner1 == Contact(<<"ont", "/", "role", "/", "owner">>, "APL", "USA", None)
OpSlash == Contact(<<"ont", "/", "operator", "/">>, "UW", "USA", "http://uw")
NoRole == Contact(NoneSeq, "UW", "USA", "http://uw")

ContactLists ==
    { <<Op1, Pub1>>, <<Op1, Op2, Pub1>>, <<Op2, Pub1, Op1>>,
      <<Pub2, Op2, Pub1, Op1>>, <<Op1, Owner1, Pub1>>,
      <<Pub1>>, <<Op1>>, <<OpSlash, Pub1>>, <<NoRole, Op1, Pub1>> }

\* swe:Quantity elements: attrib is the element's attribute dictionary
Quantity(definition) == [attrib |-> [definition |-> definition]]
QuantityNoDef == [attrib |-> [name |-> <<"q">>]]

DefTemp == <<"cf", "/", "param", "/", "temp">>
DefSal == <<"cf", "/", "sal">>
DefWind == <<"wind">>
DefCommaEarly == <<"cf", ",", "v2", "/", "temp">>
DefCommaLate == <<"cf", "/", "u", ",", "v">>
DefSlashEnd == <<"cf", "/">>

QuantityLists ==
    { <<Quantity(DefTemp)>>, <<>>, <<Quantity(DefTemp), Quantity(DefSal)>>,
      <<Quantity(DefSal), Quantity(DefTemp)>>, <<Quantity(DefWind), Quantity(DefTemp)>>,
      <<Quantity(DefCommaEarly)>>, <<Quantity(DefCommaLate)>>,
      <<Quantity(DefTemp), Quantity(DefCommaLate)>>, <<Quantity(DefSlashEnd)>>,
      <<Quantity(DefTemp), QuantityNoDef>> }

\* text of gml:Point/gml:pos, NoneSeq when the element is absent
PosTexts ==
    { <<"1", " ", "-", "2">>, <<"-", "2", " ", "1">>, <<" ", "1", "2", " ", " ", "3", " ">>,
      <<"1">>, <<"1", " ", "x">>, <<"x", " ", "1">>,
      <<"1", "-", "2", " ", "3">>, <<"1", " ", "2", " ", "3">>, NoneSeq }

\* sml:documentation/sml:DocumentList/sml:member elements, each with its
\* sml:Document children
Document(url) == [url |-> url]
Member(documents) == [documents |-> documents]

DocumentationLists ==
    { <<Member(<<Document("http://web1")>>)>>, <<>>,
      <<Member(<<Document("http://web1"), Document("http://web2")>>)>>,
      <<Member(<<Document("http://web2")>>), Member(<<Document("http://web1")>>)>>,
      <<Member(<<>>), Member(<<Document("http://web1")>>)>>,
      <<Member(<<Document(None)>>)>> }

\* datetime values, as <<year, month, day, hour, minute, second>>
T0 == <<2014, 5, 1, 0, 0, 0>>
T1 == <<2015, 12, 31, 23, 59, 7>>

BaseDoc ==
    [ pos |-> <<"1", " ", "-", "2">>,
      documentation |-> <<Member(<<Document("http://web1")>>)>>,
      contacts |-> <<Op1, Pub1>>,
      outputs |-> <<Quantity(DefTemp)>>,
      shortName |-> "a", longName |-> "Station A", wmoID |-> None,
      platformType |-> "buoy", parentNetwork |-> "NANOOS", sponsor |-> None,
      operatorSector |-> "academic", publisher |-> "NANOOS",
      starting |-> T0, ending |-> T1 ]

\* The documents of the model: the base document with one part varied.
PosDocs == {[BaseDoc EXCEPT !.pos = p] : p \in PosTexts}
DocumentationDocs == {[BaseDoc EXCEPT !.documentation = d] : d \in DocumentationLists}
ContactDocs == {[BaseDoc EXCEPT !.contacts = c] : c \in ContactLists}
OutputDocs == {[BaseDoc EXCEPT !.outputs = q] : q \in QuantityLists}
TimeDocs == {BaseDoc, [BaseDoc EXCEPT !.starting = NoneSeq],
             [BaseDoc EXCEPT !.ending = NoneSeq, !.shortName = None],
             [BaseDoc EXCEPT !.starting = T1, !.ending = T0, !.wmoID = "46041",
                             !.sponsor = "NSF"]}
Families == {PosDocs, DocumentationDocs, ContactDocs, OutputDocs, TimeDocs}
Docs == UNION Families

----------------------------------------------------------------------------
(* One loop iteration, lines 50-120                                        *)

Exc(type, line) == [type |-> type, line |-> line]

\* Variant: dict.setdefault(key, value), the first value of a key stays
PutIfAbsent(dct, key, value) ==
    [k \in DOMAIN dct \cup {key} |-> IF k \in DOMAIN dct THEN dct[k] ELSE value]

\* dict[key] = value
Put(dct, key, value) ==
    [k \in DOMAIN dct \cup {key} |-> IF k = key THEN value ELSE dct[k]]

\* dict[key]: the value, or KeyError raised
KeyError == [raised |-> "KeyError"]
\* Variant: dict.get(key, default) with an empty contact as the default
GetItemOrDefault(dct, key) ==
    IF key \in DOMAIN dct THEN dct[key] ELSE Contact(NoneSeq, None, None, None)
GetItem(dct, key) == IF key \in DOMAIN dct THEN dct[key] ELSE KeyError

\* lines 74-78: the loop over the contacts, in document order
RECURSIVE ContactsDct(_, _)
ContactsDct(contacts, dct) ==
    IF contacts = <<>> THEN dct
    ELSE LET contact == Head(contacts)
             role == LastSegment(contact.role, "/")
         IN  ContactsDct(Tail(contacts), Put(dct, role, contact))

\* line 81
QuantLst(sweQuants) == [i \in DOMAIN sweQuants |-> sweQuants[i].attrib.definition]

\* Variant: split('/')[0], the first segment
ParameterLstFirst(quants) == [i \in DOMAIN quants |-> Split(quants[i], "/")[1]]

\* line 82
ParameterLst(quants) == [i \in DOMAIN quants |-> LastSegment(quants[i], "/")]

\* Variant: documents[-1], the last member
WebpageUrlLastMember(documents) ==
    IF Len(documents) > 0 THEN documents[Len(documents)].documents[1].url ELSE None

\* lines 66-71
WebpageUrl(documents) ==
    IF Len(documents) > 0 THEN documents[1].documents[1].url ELSE None

\* lines 86-87: the two tokens the record takes from the position text
\* Variant: lon read from the first token
LonFirstToken(pos) == Float(SplitWS(pos)[1])
Lon(pos) == Float(SplitWS(pos)[2])
Lat(pos) == Float(SplitWS(pos)[1])

\* datetime.isoformat(d), for a datetime without microseconds or time zone
Pad2(n) == IF n < 10 THEN "0" \o ToString(n) ELSE ToString(n)
Isoformat(d) ==
    <<ToString(d[1]), "-", Pad2(d[2]), "-", Pad2(d[3]), "T",
      Pad2(d[4]), ":", Pad2(d[5]), ":", Pad2(d[6])>>

\* station.keys(): the keys in the order lines 85-118 insert them
StationKeys ==
    <<"station_urn", "lon", "lat", "shortName", "longName", "wmoID", "platformType",
      "parentNetwork", "sponsor", "webpage_url", "operatorSector", "operator_org",
      "operator_country", "operator_url", "publisher", "publisher_org",
      "publisher_url", "starting", "ending", "starting_isostr", "ending_isostr",
      "parameter_uris", "parameters">>

OperatorKey == <<"operator">>
PublisherKey == <<"publisher">>

\* The first exception the iteration raises on document sml, in the order the
\* statements run, or NoExc.
IterationExc(sml) ==
    LET documents == sml.documentation
        contacts == sml.contacts
        sweQuants == sml.outputs
        dct == ContactsDct(contacts, <<>>)
        toks == SplitWS(sml.pos)
    IN  IF Len(documents) > 0 /\ Len(documents[1].documents) = 0
            THEN Exc("IndexError", 69)
        ELSE IF \E i \in DOMAIN contacts : contacts[i].role = NoneSeq
            THEN Exc("AttributeError", 77)
        ELSE IF \E i \in DOMAIN sweQuants : "definition" \notin DOMAIN sweQuants[i].attrib
            THEN Exc("KeyError", 81)
        ELSE IF sml.pos = NoneSeq THEN Exc("AttributeError", 86)
        ELSE IF Len(toks) < 2 THEN Exc("IndexError", 86)
        ELSE IF ~IsFloat(toks[2]) THEN Exc("ValueError", 86)
        ELSE IF ~IsFloat(toks[1]) THEN Exc("ValueError", 87)
        ELSE IF GetItem(dct, OperatorKey) = KeyError THEN Exc("KeyError", 101)
        ELSE IF GetItem(dct, PublisherKey) = KeyError THEN Exc("KeyError", 108)
        ELSE IF sml.starting = NoneSeq THEN Exc("TypeError", 114)
        ELSE IF sml.ending = NoneSeq THEN Exc("TypeError", 115)
        ELSE NoExc

\* lines 84-118: the record of station_urn built from document sml
StationRecord(station_urn, sml) ==
    LET dct == ContactsDct(sml.contacts, <<>>)
        quants == QuantLst(sml.outputs)
    IN  [ station_urn |-> station_urn,
          lon |-> Lon(sml.pos),
          lat |-> Lat(sml.pos),
          shortName |-> sml.shortName,
          longName |-> sml.longName,
          wmoID |-> sml.wmoID,
          platformType |-> sml.platformType,
          parentNetwork |-> sml.parentNetwork,
          sponsor |-> sml.sponsor,
          webpage_url |-> WebpageUrl(sml.documentation),
          operatorSector |-> sml.operatorSector,
          operator_org |-> GetItem(dct, OperatorKey).organization,
          operator_country |-> GetItem(dct, OperatorKey).country,
          operator_url |-> GetItem(dct, OperatorKey).url,
          publisher |-> sml.publisher,
          publisher_org |-> GetItem(dct, PublisherKey).organization,
          publisher_url |-> GetItem(dct, PublisherKey).url,
          starting |-> sml.starting,
          ending |-> sml.ending,
          starting_isostr |-> Isoformat(sml.starting),
          ending_isostr |-> Isoformat(sml.ending),
          parameter_uris |-> Join(quants, ","),
          parameters |-> Join(ParameterLst(quants), ",") ]

\* Variant: station_recs.insert(0, station)
InsertFirst(lst, x) == <<x>> \o lst

\* line 120
AppendRecord(lst, x) == Append(lst, x)

\* lines 44-45: the offerings kept as stations
\* Variant: only the second component is compared with 'network'
IsStationAtPosition(name) ==
    ~(Len(Split(name, ":")) >= 2 /\ Split(name, ":")[2] = <<"network">>)

IsStation(name) == <<"network">> \notin Range(Split(name, ":"))

RECURSIVE SelectStations(_)
SelectStations(names) ==
    IF names = <<>> THEN <<>>
    ELSE IF IsStation(Head(names))
         THEN <<Head(names)>> \o SelectStations(Tail(names))
         ELSE SelectStations(Tail(names))

\* Variant: the columns do not come from the loop's last record
StationBoundAlways(st) == TRUE

\* line 122: whether the name station is bound when station.keys() is evaluated
StationBound(st) == st # Unbound

\* lines 122-123: the table of the records, indexed by its station_urn column
FromRecords(recs, columns) ==
    [columns |-> columns, rows |-> recs, index |-> [i \in DOMAIN recs |-> i]]
SetIndex(df, column) ==
    [df EXCEPT !.index = [i \in DOMAIN df.rows |-> df.rows[i][column]]]

\* Input space: the documents of one harvest differ from BaseDoc in the same
\* part (position, documentation, contacts, outputs or times).
OneFamily(docs) == \E f \in Families : Range(docs) \subseteq f

----------------------------------------------------------------------------
(* The state machine                                                       *)

FetchError == "FetchError"
\* the answer of a request that failed, in place of a document
Failed == [failed |-> TRUE]

Init ==
    /\ pc = "start"
    /\ station_urns_sel = [isNone |-> TRUE, value |-> <<>>]
    /\ offerings = <<>>
    /\ station_urns = <<>>
    /\ sml_lst = <<>>
    /\ station_idx = 0
    /\ station_recs = <<>>
    /\ station = Unbound
    /\ contacts_dct = Unbound
    /\ quant_lst = Unbound
    /\ parameter_lst = Unbound
    /\ stations_df = Unbound
    /\ exc = NoExc

\* Variant: the exception is caught and recorded, and the call goes on
RaiseAndContinue(e) ==
    /\ pc' = pc
    /\ exc' = e

\* An exception leaves get_stations_df, which has no try statement.
Raise(e) ==
    /\ pc' = "raised"
    /\ exc' = e

\* lines 38-41: the caller gave the list of station URNs
StartExplicit ==
    /\ pc = "start"
    /\ \E sel \in ListsUpTo(StationUrns, MaxStations), ok \in BOOLEAN :
        /\ station_urns_sel' = [isNone |-> FALSE, value |-> sel]
        /\ IF ok
           THEN /\ station_urns' = sel
                /\ pc' = "loop"
                /\ exc' = exc
           ELSE /\ Raise(Exc(FetchError, 40))
                /\ station_urns' = station_urns
    /\ UNCHANGED <<offerings, sml_lst, station_idx, station_recs, station,
                   contacts_dct, quant_lst, parameter_lst, stations_df>>

\* lines 42-47: the stations are the offerings that are no network, and
\* metadata() fetches the documents of all of them
StartDefault ==
    /\ pc = "start"
    /\ station_urns_sel' = [isNone |-> TRUE, value |-> <<>>]
    /\ \E names \in ListsUpTo(OfferingNames, MaxStations) :
        \/ /\ offerings' = names
           /\ station_urns' = SelectStations(names)
           /\ \E docs \in [1..Len(SelectStations(names)) -> Docs] :
                /\ OneFamily(docs)
                /\ sml_lst' = docs
           /\ pc' = "loop"
           /\ exc' = exc
        \/ /\ offerings' = names
           /\ station_urns' = SelectStations(names)
           /\ sml_lst' = sml_lst
           /\ Raise(Exc(FetchError, 47))
        \/ /\ Raise(Exc(FetchError, 43))
           /\ UNCHANGED <<offerings, station_urns, sml_lst>>
    /\ UNCHANGED <<station_idx, station_recs, station, contacts_dct, quant_lst,
                   parameter_lst, stations_df>>

\* lines 50-120: one iteration of the loop.  In explicit mode the document is
\* fetched here (lines 52-54), in default mode it is sml_lst[station_idx]
\* (line 56).  When a statement raises, the call ends there: the frame's
\* locals are gone with it and keep the values of the last complete
\* iteration; the document that failed stays recorded in sml_lst.
ProcessStation ==
    /\ pc = "loop"
    /\ station_idx < Len(station_urns)
    /\ LET station_urn == station_urns[station_idx + 1]
       IN  \E fetched \in Docs \cup {Failed} :
            /\ station_urns_sel.isNone => fetched = sml_lst[station_idx + 1]
            /\ IF fetched = Failed
               THEN /\ Raise(Exc(FetchError, 52))
                    /\ UNCHANGED <<sml_lst, station_idx, station_recs, station,
                                   contacts_dct, quant_lst, parameter_lst>>
               ELSE LET sml == fetched
                    IN  /\ OneFamily(Append(sml_lst, sml))
                        /\ sml_lst' = IF station_urns_sel.isNone THEN sml_lst
                                       ELSE Append(sml_lst, sml)
                        /\ IF IterationExc(sml) # NoExc
                           THEN /\ Raise(IterationExc(sml))
                                /\ UNCHANGED <<station_idx, station_recs, station,
                                               contacts_dct, quant_lst, parameter_lst>>
                           ELSE /\ contacts_dct' = ContactsDct(sml.contacts, <<>>)
                                /\ quant_lst' = QuantLst(sml.outputs)
                                /\ parameter_lst' = ParameterLst(QuantLst(sml.outputs))
                                /\ station' = StationRecord(station_urn, sml)
                                /\ station_recs' = AppendRecord(station_recs, station')
                                /\ station_idx' = station_idx + 1
                                /\ UNCHANGED <<pc, exc>>
    /\ UNCHANGED <<station_urns_sel, offerings, station_urns, stations_df>>

\* lines 122-125: after the loop
BuildTable ==
    /\ pc = "loop"
    /\ station_idx = Len(station_urns)
    /\ IF ~StationBound(station)
       THEN /\ Raise(Exc("UnboundLocalError", 122))
            /\ stations_df' = stations_df
       ELSE /\ stations_df' = SetIndex(FromRecords(station_recs, StationKeys), "station_urn")
            /\ pc' = "returned"
            /\ exc' = exc
    /\ UNCHANGED <<station_urns_sel, offerings, station_urns, sml_lst, station_idx,
                   station_recs, station, contacts_dct, quant_lst, parameter_lst>>

Next == StartExplicit \/ StartDefault \/ ProcessStation \/ BuildTable

Spec == Init /\ [][Next]_vars

----------------------------------------------------------------------------
(* Properties                                                              *)

\* seg is the last sep-separated segment of s: it holds no sep, and s is seg
\* or ends in sep followed by seg.
IsLastSegment(seg, s, sep) ==
    /\ \A i \in DOMAIN seg : seg[i] # sep
    /\ Len(seg) <= Len(s)
    /\ SubSeq(s, Len(s) - Len(seg) + 1, Len(s)) = seg
    /\ Len(seg) < Len(s) => s[Len(s) - Len(seg)] = sep

\* The document the loop was working on when the exception left it.
FailedInLoop == pc = "raised" /\ exc.line >= 52 /\ exc.line <= 120
FailingDoc == sml_lst[station_idx + 1]

\* A required part is missing from the document.
HasRole(sml, key) ==
    \E i \in DOMAIN sml.contacts : IsLastSegment(key, sml.contacts[i].role, "/")
LacksRequired(sml) ==
    \/ sml.pos = NoneSeq
    \/ ~HasRole(sml, OperatorKey)
    \/ ~HasRole(sml, PublisherKey)
    \/ \E i \in DOMAIN sml.outputs : "definition" \notin DOMAIN sml.outputs[i].attrib

\* C1: every table get_stations_df returns has pairwise distinct station_urn
\* index values (a station list with the same URN twice gives no table).
C1_DistinctIndex ==
    pc = "returned" =>
        \A i, j \in DOMAIN stations_df.index :
            i # j => stations_df.index[i] # stations_df.index[j]

\* C2: a document without position, operator contact, publisher contact or
\* with a swe:Quantity without definition never gets a record: no record of
\* the list was built from such a document, no table is returned over one,
\* and fetching one in the loop ends the call with an exception.
C2_RequiredFields ==
    /\ \A i \in DOMAIN station_recs : ~LacksRequired(sml_lst[i])
    /\ pc = "returned" => \A i \in DOMAIN sml_lst : ~LacksRequired(sml_lst[i])
    /\ (pc \in {"loop", "raised"} /\ Len(sml_lst) > station_idx
        /\ ~station_urns_sel.isNone /\ LacksRequired(FailingDoc))
            => (FailedInLoop /\ Len(station_recs) = station_idx)

C2_Witness ==
    /\ pc = "raised"
    /\ exc = Exc("KeyError", 101)
    /\ Len(station_recs) = 1
    /\ ~HasRole(FailingDoc, OperatorKey)

\* C7: the record list holds one record per station processed so far, in
\* processing order, the latest record last; a returned table has one row
\* per station of the list, row i being record i with the URN of station i,
\* and its index is its station_urn column.
C7_RowsInOrder ==
    /\ station_idx <= Len(station_urns)
    /\ Len(station_recs) = station_idx
    /\ \A i \in DOMAIN station_recs : station_recs[i].station_urn = station_urns[i]
    /\ station_idx >= 1 => station_recs[station_idx] = station
    /\ pc = "returned" =>
        /\ Len(stations_df.rows) = Len(station_urns)
        /\ stations_df.rows = station_recs
        /\ DOMAIN stations_df.index = DOMAIN stations_df.rows
        /\ \A i \in DOMAIN stations_df.rows :
            /\ stations_df.index[i] = stations_df.rows[i].station_urn
            /\ stations_df.index[i] = station_urns[i]

C7_Witness ==
    /\ pc = "returned"
    /\ Len(station_urns) = 2
    /\ station_urns[1] # station_urns[2]
    /\ stations_df.index = station_urns

\* C9: once an exception has left a fetch or a parse, the call has ended
\* with that exception: no table is returned, the record list is the one of
\* the stations before the failing one, and nothing happens afterwards; a
\* table is returned only when no exception was raised.
C9_StateOnError ==
    /\ exc # NoExc => (pc = "raised" /\ stations_df = Unbound)
    /\ pc = "returned" => (exc = NoExc /\ station_idx = Len(station_urns))
    /\ FailedInLoop => (station_idx < Len(station_urns) /\ Len(station_recs) = station_idx)
    /\ (~station_urns_sel.isNone /\ Len(sml_lst) > station_idx) =>
            (FailedInLoop /\ exc = IterationExc(FailingDoc))

\* C9: the state on an error is as C9_StateOnError says in every reachable
\* state, and no step is taken once the exception has left the call.
C9_ErrorPropagates == [](C9_StateOnError) /\ [][pc = "raised" => UNCHANGED vars]_vars

C9_Witness ==
    /\ pc = "raised"
    /\ exc = Exc("IndexError", 86)
    /\ Len(station_recs) = 1
    /\ Len(station_urns) = 2

\* C10: a table is returned only after at least one station was processed;
\* with an empty station list the construction of the table raises.
C10_EmptyListRaises ==
    /\ pc = "returned" => (station_idx >= 1 /\ Len(stations_df.rows) >= 1
                            /\ stations_df.columns = StationKeys)
    /\ (station_urns = <<>> /\ pc = "raised" /\ exc.line \notin {40, 43, 47}) =>
            exc = Exc("UnboundLocalError", 122)
    /\ (station_urns = <<>> /\ pc \notin {"start", "loop"}) => pc = "raised"

C10_Witness ==
    /\ pc = "raised"
    /\ exc = Exc("UnboundLocalError", 122)
    /\ station_urns_sel.isNone
    /\ offerings = <<NetAll>>

\* The definitions of the swe:Quantity outputs of a document, in document order.
Definitions(sml) == [i \in DOMAIN sml.outputs |-> sml.outputs[i].attrib.definition]

\* The two lists correspond: same length, each name the last "/"-segment of
\* the URI at its index.
Corresponds(uris, names) ==
    /\ Len(uris) = Len(names)
    /\ \A i \in DOMAIN uris : IsLastSegment(names[i], uris[i], "/")

HasComma(s) == \E i \in DOMAIN s : s[i] = ","

\* The lists of the latest iteration correspond and are the definitions of
\* the document's outputs in document order.
C3_Lists ==
    /\ Corresponds(quant_lst, parameter_lst)
    /\ quant_lst = Definitions(sml_lst[station_idx])

\* The two stored strings, taken apart at their commas, correspond and, when
\* there is an output at all, give back the definitions in document order.
C3_Stored(rec, sml) ==
    LET uris == Split(rec.parameter_uris, ",")
        names == Split(rec.parameters, ",")
    IN  /\ Corresponds(uris, names)
        /\ sml.outputs # <<>> => uris = Definitions(sml)

\* C3 as stated: the correspondence holds of the lists and of the two
\* comma-joined strings of every record.
C3_Original ==
    /\ station_idx >= 1 => C3_Lists
    /\ \A i \in DOMAIN station_recs : C3_Stored(station_recs[i], sml_lst[i])

\* C3 amended: the correspondence holds of the lists; it holds of the two
\* comma-joined strings of a record when no definition of the document
\* contains a comma.
C3_NoComma ==
    /\ station_idx >= 1 => C3_Lists
    /\ \A i \in DOMAIN station_recs :
        (\A k \in DOMAIN sml_lst[i].outputs : ~HasComma(Definitions(sml_lst[i])[k]))
            => C3_Stored(station_recs[i], sml_lst[i])

C3_Witness ==
    /\ station_idx >= 1
    /\ quant_lst = <<DefWind, DefTemp>>
    /\ parameter_lst = <<<<"wind">>, <<"temp">>>>
    /\ station.parameters = <<"wind", ",", "temp">>

\* The contact of document sml that is latest in document order among those
\* whose role ends in segment key.
LatestWithRole(sml, key) ==
    LET idx == {i \in DOMAIN sml.contacts : IsLastSegment(key, sml.contacts[i].role, "/")}
    IN  sml.contacts[CHOOSE i \in idx : \A j \in idx : j <= i]

Suffixes(s) == {SubSeq(s, k, Len(s)) : k \in 1..(Len(s) + 1)}
RoleKeys(sml) ==
    {key \in UNION {Suffixes(sml.contacts[i].role) : i \in DOMAIN sml.contacts} :
        HasRole(sml, key)}

\* C4: the role-to-contact mapping holds, for each role segment of the
\* document, exactly the contact latest in document order with that segment,
\* and the operator and publisher fields of every record come from the
\* latest operator and the latest publisher contact.
C4_LastContactWins ==
    /\ station_idx >= 1 =>
        LET sml == sml_lst[station_idx]
        IN  /\ DOMAIN contacts_dct = RoleKeys(sml)
            /\ \A key \in RoleKeys(sml) : contacts_dct[key] = LatestWithRole(sml, key)
    /\ \A i \in DOMAIN station_recs :
        LET op == LatestWithRole(sml_lst[i], OperatorKey)
            pub == LatestWithRole(sml_lst[i], PublisherKey)
            rec == station_recs[i]
        IN  /\ rec.operator_org = op.organization
            /\ rec.operator_country = op.country
            /\ rec.operator_url = op.url
            /\ rec.publisher_org = pub.organization
            /\ rec.publisher_url = pub.url

C4_Witness ==
    /\ station_idx >= 1
    /\ sml_lst[station_idx].contacts = <<Op1, Op2, Pub1>>
    /\ contacts_dct[OperatorKey] = Op2
    /\ station.operator_org = "OSU"
    /\ station.operator_country = "Canada"

\* C5: the webpage_url of a record is the URL of the first document of the
\* first documentation member of its document when there is a member, and
\* None when there is none; the documentation lookup raises for no document
\* without members.
C5_FirstDocument ==
    /\ \A i \in DOMAIN station_recs :
        LET members == sml_lst[i].documentation
        IN  IF members # <<>>
            THEN station_recs[i].webpage_url = members[1].documents[1].url
            ELSE station_recs[i].webpage_url = None
    /\ (FailedInLoop /\ exc.line = 69) => FailingDoc.documentation # <<>>

C5_Witness ==
    /\ Len(station_recs) = 2
    /\ sml_lst[1].documentation = <<>>
    /\ station_recs[1].webpage_url = None
    /\ Len(sml_lst[2].documentation) = 2
    /\ station_recs[2].webpage_url = "http://web2"

\* Parts of a position text: a run of whitespace, a numeric token.
Blank(s) == \A i \in DOMAIN s : s[i] = " "
Token(s) == s # <<>> /\ IsFloat(s) /\ \A i \in DOMAIN s : s[i] # " "

\* C6: for a position text of two whitespace-separated numeric tokens (the
\* first at a..b, the second at c..d, nothing but whitespace around them),
\* the record's lat is the first token and its lon the second.
C6_LatThenLon ==
    \A i \in DOMAIN station_recs :
        LET pos == sml_lst[i].pos
        IN  \A a \in DOMAIN pos : Blank(SubSeq(pos, 1, a - 1)) =>
            \A b \in a..Len(pos) : Token(SubSeq(pos, a, b)) =>
            \A c \in (b + 2)..Len(pos) : Blank(SubSeq(pos, b + 1, c - 1)) =>
            \A d \in c..Len(pos) :
                (Token(SubSeq(pos, c, d)) /\ Blank(SubSeq(pos, d + 1, Len(pos)))) =>
                    /\ station_recs[i].lat = Float(SubSeq(pos, a, b))
                    /\ station_recs[i].lon = Float(SubSeq(pos, c, d))

C6_Witness ==
    /\ station_idx >= 1
    /\ sml_lst[station_idx].pos = <<"1", " ", "-", "2">>
    /\ station.lat = 1
    /\ station.lon = 0 - 2

\* The offerings were listed and the station list derived from them.
DefaultListed == station_urns_sel.isNone /\ pc # "start" /\ exc.line # 43

Component(name, p) ==
    IF p \in DOMAIN Split(name, ":") THEN Split(name, ":")[p] ELSE <<>>

\* C8 as stated: there is one fixed position such that the stations are the
\* offerings, in listing order, without "network" at that position.
C8_Original ==
    DefaultListed =>
        \E p \in DOMAIN Split(NetAll, ":") :
            station_urns = SelectSeq(offerings, LAMBDA n : Component(n, p) # <<"network">>)

\* C8 amended: the stations are the offerings, in listing order, that have
\* no colon-delimited component equal to "network" at any position.
C8_AnyPosition ==
    DefaultListed =>
        station_urns = SelectSeq(offerings,
            LAMBDA n : \A p \in DOMAIN Split(n, ":") : Component(n, p) # <<"network">>)

C8_Witness ==
    /\ DefaultListed
    /\ offerings = <<StaNamedNetwork, StaA>>
    /\ station_urns = <<StaA>>

====
